---- MODULE Spec2Model ----
(***************************************************************************)
(* A model of the hand-rolled HTTP/1.1 server: the request parser          *)
(* (HttpRequest::try_from), the router (Server::handle_request), the gzip  *)
(* encoder, and the accept loop with its worker pool (Server::listen).     *)
(*                                                                         *)
(* Bytes are one-character strings; "xFF" stands for a byte that is not    *)
(* valid UTF-8.  Text, header values, targets and bodies are sequences of  *)
(* bytes.                                                                  *)
(*                                                                         *)
(* Operators that need an intermediate result several times take it as a   *)
(* parameter of a helper (RequestLine, HeaderLine, Enter, ...) instead of  *)
(* naming it in a LET.                                                     *)
(***************************************************************************)
EXTENDS Integers, Sequences, FiniteSets, TLC

VARIABLES
    argv,       \* the command line the process was started with
    serverConf, \* Args: [directory], the base directory or None
    workDir,    \* the working directory of the process, a canonical location
    files,      \* the file system: canonical location -> node
    incoming,   \* the connections clients make, in the order the listener yields them
    conns,      \* what became of each connection the acceptor has taken
    queue,      \* the pool's job queue: connection numbers, oldest first
    workers,    \* per worker: what it is doing
    started,    \* the connection numbers in the order their jobs started
    hReq,       \* handler on its own: the request handled last
    hResp       \* handler on its own: the response to it

vars == <<argv, serverConf, workDir, files, incoming, conns, queue, workers, started, hReq, hResp>>

\* ------------------------------------------------------------------ bytes

BadByte == "xFF"

Whitespace == {" ", "\t", "\r", "\n"}

Digits == {"0", "1", "2", "3", "4", "5", "6", "7", "8", "9"}

DigitVal(c) ==
    CASE c = "0" -> 0 [] c = "1" -> 1 [] c = "2" -> 2 [] c = "3" -> 3
      [] c = "4" -> 4 [] c = "5" -> 5 [] c = "6" -> 6 [] c = "7" -> 7
      [] c = "8" -> 8 [] c = "9" -> 9

\* char::to_lowercase on the ASCII range
LowerChar(c) ==
    CASE c = "A" -> "a" [] c = "B" -> "b" [] c = "C" -> "c" [] c = "D" -> "d"
      [] c = "E" -> "e" [] c = "F" -> "f" [] c = "G" -> "g" [] c = "H" -> "h"
      [] c = "I" -> "i" [] c = "J" -> "j" [] c = "K" -> "k" [] c = "L" -> "l"
      [] c = "M" -> "m" [] c = "N" -> "n" [] c = "O" -> "o" [] c = "P" -> "p"
      [] c = "Q" -> "q" [] c = "R" -> "r" [] c = "S" -> "s" [] c = "T" -> "t"
      [] c = "U" -> "u" [] c = "V" -> "v" [] c = "W" -> "w" [] c = "X" -> "x"
      [] c = "Y" -> "y" [] c = "Z" -> "z" [] OTHER -> c

\* str::to_lowercase
ToLowercase(s) == [i \in 1..Len(s) |-> LowerChar(s[i])]

\* Option<T>
None == [some |-> FALSE, val |-> <<>>]

Some(v) == [some |-> TRUE, val |-> v]

Min(a, b) == IF a < b THEN a ELSE b

\* F of the value of e, the value taken once and then used
With(e, F(_)) == CHOOSE r \in {F(v) : v \in {e}} : TRUE

\* the index of the first element of s at or after position i that lies in
\* set cs, or Len(s) + 1 when there is none
RECURSIVE FindFrom(_, _, _)
FindFrom(s, i, cs) ==
    IF i > Len(s) THEN Len(s) + 1
    ELSE IF s[i] \in cs THEN i
    ELSE FindFrom(s, i + 1, cs)

\* the index of the first element at or after i that does NOT lie in cs
RECURSIVE SkipFrom(_, _, _)
SkipFrom(s, i, cs) ==
    IF i > Len(s) THEN Len(s) + 1
    ELSE IF s[i] \notin cs THEN i
    ELSE SkipFrom(s, i + 1, cs)

\* the index of the last element at or before i that does not lie in cs, or 0
RECURSIVE SkipBack(_, _, _)
SkipBack(s, i, cs) ==
    IF i < 1 THEN 0
    ELSE IF s[i] \notin cs THEN i
    ELSE SkipBack(s, i - 1, cs)

\* s from a to b, empty when a > b
Cut(s, a, b) == IF a > b THEN <<>> ELSE SubSeq(s, a, b)

\* str::trim
Trim(s) ==
    With(SkipFrom(s, 1, Whitespace),
         LAMBDA a : With(SkipBack(s, Len(s), Whitespace), LAMBDA b : Cut(s, a, b)))

\* str::split_whitespace, collected: the maximal runs of non-whitespace
RECURSIVE SplitWhitespaceFrom(_, _)
TokenTo(s, a, b) == <<SubSeq(s, a, b - 1)>> \o SplitWhitespaceFrom(s, b)

TokenFrom(s, a) ==
    IF a > Len(s) THEN <<>>
    ELSE With(FindFrom(s, a, Whitespace), LAMBDA b : TokenTo(s, a, b))

SplitWhitespaceFrom(s, i) ==
    With(SkipFrom(s, i, Whitespace), LAMBDA a : TokenFrom(s, a))

SplitWhitespace(s) == SplitWhitespaceFrom(s, 1)

\* str::split_once(':'): the text before and after the first ':'
SplitAt(s, i) ==
    IF i > Len(s) THEN None
    ELSE Some(<<SubSeq(s, 1, i - 1), SubSeq(s, i + 1, Len(s))>>)

SplitOnce(s, c) == With(FindFrom(s, 1, {c}), LAMBDA i : SplitAt(s, i))

RECURSIVE LastSlash(_, _)
LastSlash(s, i) ==
    IF i < 1 THEN 0
    ELSE IF s[i] = "/" THEN i
    ELSE LastSlash(s, i - 1)

\* str::split('/').last(): the text after the last '/', the whole text when
\* it holds none; split always yields at least one piece
LastSegment(s) == Some(SubSeq(s, LastSlash(s, Len(s)) + 1, Len(s)))

\* str::starts_with
StartsWith(s, p) == Len(p) <= Len(s) /\ SubSeq(s, 1, Len(p)) = p

\* str::contains
Contains(s, p) ==
    \E i \in 1..(Len(s) + 1) :
        i + Len(p) - 1 <= Len(s) /\ SubSeq(s, i, i + Len(p) - 1) = p

\* std::str::from_utf8 succeeds
ValidUtf8(s) == \A i \in 1..Len(s) : s[i] # BadByte

\* ----------------------------------------------------------------- errors

\* crate::errors::Error, the variants the server raises
InvalidRequest == "InvalidRequest"

InvalidMethod == "InvalidMethod"

Io == "Io"

\* ---------------------------------------------------------------- methods

GET == <<"G", "E", "T">>

DELETE == <<"D", "E", "L", "E", "T", "E">>

POST == <<"P", "O", "S", "T">>

PUT == <<"P", "U", "T">>

HEAD == <<"H", "E", "A", "D">>

CONNECT == <<"C", "O", "N", "N", "E", "C", "T">>

OPTIONS == <<"O", "P", "T", "I", "O", "N", "S">>

TRACE == <<"T", "R", "A", "C", "E">>

PATCH == <<"P", "A", "T", "C", "H">>

\* enum HttpMethod
HttpMethod == {GET, DELETE, POST, PUT, HEAD, CONNECT, OPTIONS, TRACE, PATCH}

\* a from_str whose last arm takes any other token for GET
MethodFromStrLenient(value) ==
    IF value \in HttpMethod THEN [ok |-> TRUE, val |-> value, err |-> ""]
    ELSE [ok |-> TRUE, val |-> GET, err |-> ""]

\* HttpMethod::from_str: the nine tokens, matched exactly (case-sensitive)
MethodFromStr(value) ==
    IF value \in HttpMethod THEN [ok |-> TRUE, val |-> value, err |-> ""]
    ELSE [ok |-> FALSE, val |-> <<>>, err |-> InvalidMethod]

\* ----------------------------------------------------------------- parser

ContentLengthKey == <<"c", "o", "n", "t", "e", "n", "t", "-", "l", "e", "n", "g", "t", "h">>

AcceptEncodingKey == <<"a", "c", "c", "e", "p", "t", "-", "e", "n", "c", "o", "d", "i", "n", "g">>

UserAgentKey == <<"u", "s", "e", "r", "-", "a", "g", "e", "n", "t">>

\* usize::MAX and isize::MAX on the 64-bit target, as decimal digits
UsizeMaxDigits == <<"1", "8", "4", "4", "6", "7", "4", "4", "0", "7", "3", "7", "0", "9", "5", "5", "1", "6", "1", "5">>

IsizeMaxDigits == <<"9", "2", "2", "3", "3", "7", "2", "0", "3", "6", "8", "5", "4", "7", "7", "5", "8", "0", "7">>

\* decimal digits without leading zeros ("0" for zero)
StripZeros(d) == IF SkipFrom(d, 1, {"0"}) > Len(d) THEN <<"0">>
                 ELSE SubSeq(d, SkipFrom(d, 1, {"0"}), Len(d))

RECURSIVE LexLE(_, _, _)
LexLE(a, b, i) ==
    IF i > Len(a) THEN TRUE
    ELSE IF DigitVal(a[i]) < DigitVal(b[i]) THEN TRUE
    ELSE IF DigitVal(a[i]) > DigitVal(b[i]) THEN FALSE
    ELSE LexLE(a, b, i + 1)

\* a <= b for two digit strings without leading zeros
DigitsLE(a, b) ==
    \/ Len(a) < Len(b)
    \/ Len(a) = Len(b) /\ LexLE(a, b, 1)

\* the value of a digit string that is known to be short
RECURSIVE ToNat(_, _)
ToNat(d, i) == IF i < 1 THEN 0 ELSE ToNat(d, i - 1) * 10 + DigitVal(d[i])

\* digits without leading zeros as a usize: the value is at most usize::MAX
CheckedUsize(z) ==
    IF DigitsLE(z, UsizeMaxDigits) THEN [ok |-> TRUE, digits |-> z]
    ELSE [ok |-> FALSE, digits |-> <<>>]

ParseDigits(d) ==
    IF Len(d) = 0 \/ \E i \in 1..Len(d) : d[i] \notin Digits
    THEN [ok |-> FALSE, digits |-> <<>>]
    ELSE With(StripZeros(d), LAMBDA z : CheckedUsize(z))

\* str::parse::<usize>: an optional '+', then one or more decimal digits, the
\* value at most usize::MAX; the result keeps the value as digits
ParseUsize(v) ==
    With(IF Len(v) > 0 /\ v[1] = "+" THEN Tail(v) ELSE v, LAMBDA d : ParseDigits(d))

\* the number of digits up to which a length is turned into a number; the
\* streams of the model are far shorter than any length with more digits
SmallDigits == Len(IsizeMaxDigits) \div 2

\* t without its last byte when that byte is c
StripEnd(t, c) ==
    IF Len(t) > 0 /\ t[Len(t)] = c THEN SubSeq(t, 1, Len(t) - 1) ELSE t

LineOf(raw, next) ==
    IF ~ValidUtf8(raw) THEN [kind |-> "err", text |-> <<>>, next |-> next]
    ELSE [kind |-> "line", text |-> StripEnd(StripEnd(raw, "\n"), "\r"), next |-> next]

LineUpTo(s, pos, last) == With(SubSeq(s, pos, last), LAMBDA raw : LineOf(raw, last + 1))

\* BufRead::lines().next() at position pos of stream s: the bytes up to and
\* including the next "\n" (or up to the end), which must be UTF-8, without
\* the trailing "\n" and then without a trailing "\r"
ReadLine(s, pos) ==
    IF pos > Len(s) THEN [kind |-> "eof", text |-> <<>>, next |-> pos]
    ELSE With(Min(FindFrom(s, pos, {"\n"}), Len(s)), LAMBDA last : LineUpTo(s, pos, last))

\* an insert that keeps the value a key already has
InsertKeepsFirst(h, k, v) == h @@ (k :> v)

\* HashMap::insert: a later value replaces an earlier one for the same key
Insert(h, k, v) == (k :> v) @@ h

\* HashMap::get
Get(h, k) == IF k \in DOMAIN h THEN Some(h[k]) ELSE None

\* the header loop of try_from: lines are read until a blank line or the end
\* of the stream; each is split at its first ':', the key trimmed and
\* lower-cased, the value trimmed
RECURSIVE ReadHeaders(_, _, _)
HeaderPair(s, h, l, kv) ==
    IF kv.some
    THEN With(Insert(h, ToLowercase(Trim(kv.val[1])), Trim(kv.val[2])),
              LAMBDA hs : ReadHeaders(s, l.next, hs))
    ELSE [ok |-> FALSE, err |-> InvalidRequest, headers |-> h, next |-> l.next]

HeaderLine(s, pos, h, l) ==
    IF l.kind = "eof" THEN [ok |-> TRUE, err |-> "", headers |-> h, next |-> pos]
    ELSE IF l.kind = "err" THEN [ok |-> FALSE, err |-> Io, headers |-> h, next |-> l.next]
    ELSE IF Trim(l.text) = <<>>
    THEN [ok |-> TRUE, err |-> "", headers |-> h, next |-> l.next]
    ELSE With(SplitOnce(l.text, ":"), LAMBDA kv : HeaderPair(s, h, l, kv))

ReadHeaders(s, pos, h) == With(ReadLine(s, pos), LAMBDA l : HeaderLine(s, pos, h, l))

NoRequest == [target |-> <<>>, method |-> <<>>, headers |-> <<>>, body |-> None]

ParseErr(e, pos) ==
    [kind |-> "err", err |-> e, req |-> NoRequest, bodyStart |-> pos, next |-> pos]

ParsePanic(pos) ==
    [kind |-> "panic", err |-> "", req |-> NoRequest, bodyStart |-> pos, next |-> pos]

\* read_exact into a buffer of k bytes: it fails when the stream ends first;
\* an empty buffer is no body
ReadExact(s, pos, k) ==
    IF k > Len(s) - pos + 1
    THEN [kind |-> "err", err |-> Io, body |-> None, next |-> Len(s) + 1]
    ELSE [kind |-> "ok", err |-> "",
          body |-> IF k = 0 THEN None ELSE Some(SubSeq(s, pos, pos + k - 1)),
          next |-> pos + k]

\* the buffer for a parsed length: a length the header does not give as a
\* usize is an InvalidRequest; vec![0; n] with n above isize::MAX panics with
\* "capacity overflow".  (Lengths between the sizes a machine can allocate
\* and isize::MAX are not among the streams of the model.)
ReadLength(s, pos, n) ==
    IF ~n.ok THEN [kind |-> "err", err |-> InvalidRequest, body |-> None, next |-> pos]
    ELSE IF ~DigitsLE(n.digits, IsizeMaxDigits)
    THEN [kind |-> "panic", err |-> "", body |-> None, next |-> pos]
    ELSE IF Len(n.digits) > SmallDigits
    THEN [kind |-> "err", err |-> Io, body |-> None, next |-> Len(s) + 1]
    ELSE With(ToNat(n.digits, Len(n.digits)), LAMBDA k : ReadExact(s, pos, k))

\* a body step that takes a length it cannot parse for no length
ReadBodyLenient(s, pos, headers) ==
    IF ContentLengthKey \notin DOMAIN headers \/ ~ParseUsize(headers[ContentLengthKey]).ok
    THEN [kind |-> "ok", err |-> "", body |-> None, next |-> pos]
    ELSE With(ParseUsize(headers[ContentLengthKey]), LAMBDA n : ReadLength(s, pos, n))

\* the body step of try_from: only a content-length header makes it read
ReadBody(s, pos, headers) ==
    IF ContentLengthKey \notin DOMAIN headers
    THEN [kind |-> "ok", err |-> "", body |-> None, next |-> pos]
    ELSE With(ParseUsize(headers[ContentLengthKey]), LAMBDA n : ReadLength(s, pos, n))

RequestBody(method, target, hs, b) ==
    IF b.kind = "err" THEN ParseErr(b.err, b.next)
    ELSE IF b.kind = "panic" THEN ParsePanic(b.next)
    ELSE [kind |-> "ok", err |-> "",
          req |-> [target |-> target, method |-> method,
                   headers |-> hs.headers, body |-> b.body],
          bodyStart |-> hs.next, next |-> b.next]

RequestHeaders(s, method, target, hs) ==
    IF ~hs.ok THEN ParseErr(hs.err, hs.next)
    ELSE With(ReadBody(s, hs.next, hs.headers), LAMBDA b : RequestBody(method, target, hs, b))

\* the method is the first token and must be one of the nine; the target is
\* the second token and must exist; further tokens are ignored
RequestMethod(s, pos, ts, m) ==
    IF ~m.ok THEN ParseErr(m.err, pos)
    ELSE IF Len(ts) < 2 THEN ParseErr(InvalidRequest, pos)
    ELSE With(ReadHeaders(s, pos, <<>>), LAMBDA hs : RequestHeaders(s, m.val, ts[2], hs))

RequestTokens(s, pos, ts) ==
    IF Len(ts) = 0 THEN ParseErr(InvalidRequest, pos)
    ELSE With(MethodFromStr(ts[1]), LAMBDA m : RequestMethod(s, pos, ts, m))

RequestLine(s, l) ==
    IF l.kind = "eof" THEN ParseErr(InvalidRequest, 1)
    ELSE IF l.kind = "err" THEN ParseErr(Io, l.next)
    ELSE With(SplitWhitespace(l.text), LAMBDA ts : RequestTokens(s, l.next, ts))

\* HttpRequest::try_from(&TcpStream) on a connection that delivers the bytes s
\* and then ends
TryFrom(s) == With(ReadLine(s, 1), LAMBDA l : RequestLine(s, l))

\* ------------------------------------------------------------ file system

\* A path (PathBuf) is its text.  The file system maps each existing
\* canonical location, a sequence of names below the root, to a node: a
\* directory, a regular file with its bytes, or a symbolic link with its
\* target text.  The file systems of the model hold no cycle of links.

RootDir == <<"/">>

CurDir == <<".">>

ParentDir == <<".", ".">>

Dir == [t |-> "dir", data |-> <<>>, to |-> <<>>]

File(bytes) == [t |-> "file", data |-> bytes, to |-> <<>>]

Link(target) == [t |-> "link", data |-> <<>>, to |-> target]

\* the pieces of a text between its '/' separators, empty pieces included
RECURSIVE SplitSlash(_, _)
PieceTo(s, i, j) ==
    IF j > Len(s) THEN <<SubSeq(s, i, Len(s))>>
    ELSE <<SubSeq(s, i, j - 1)>> \o SplitSlash(s, j + 1)

SplitSlash(s, i) == With(FindFrom(s, i, {"/"}), LAMBDA j : PieceTo(s, i, j))

RECURSIVE KeepComponents(_, _, _)
KeepComponents(ps, i, keepDot) ==
    IF i > Len(ps) THEN <<>>
    ELSE (IF ps[i] = <<>> \/ (ps[i] = CurDir /\ ~(keepDot /\ i = 1))
          THEN <<>> ELSE <<ps[i]>>)
         \o KeepComponents(ps, i + 1, keepDot)

\* Path::components: the root when the path is absolute, then its names;
\* empty pieces and "." are dropped, except a leading "." of a relative path
Components(p) ==
    (IF Len(p) > 0 /\ p[1] = "/" THEN <<RootDir>> ELSE <<>>)
    \o With(SplitSlash(p, 1),
            LAMBDA ps : KeepComponents(ps, 1, ~(Len(p) > 0 /\ p[1] = "/")))

\* Path::starts_with: base's components are a prefix of self's
PathStartsWith(cs, bs) == Len(bs) <= Len(cs) /\ SubSeq(cs, 1, Len(bs)) = bs

\* PathBuf::join with a relative name: a separator is added unless the path
\* is empty or already ends with one
Join(base, name) ==
    IF Len(base) = 0 \/ base[Len(base)] = "/" THEN base \o name
    ELSE base \o <<"/">> \o name

FsErr(fs) == [ok |-> FALSE, path |-> <<>>, fs |-> fs]

\* one step of path resolution that needs no lookup
Special(cur, c) ==
    IF c = RootDir THEN <<>>
    ELSE IF c = ParentDir /\ cur # <<>> THEN SubSeq(cur, 1, Len(cur) - 1)
    ELSE cur

\* path resolution from location cur along the components cs, following
\* links; every component must exist and all but the last be directories
RECURSIVE Walk(_, _, _, _)
Follow(fs, cs, i, r) == IF r.ok THEN Walk(fs, r.path, cs, i + 1) ELSE r

Enter(fs, cur, cs, i, nxt) ==
    IF nxt \notin DOMAIN fs THEN FsErr(fs)
    ELSE IF fs[nxt].t = "link"
    THEN With(Components(fs[nxt].to),
              LAMBDA ts : With(Walk(fs, cur, ts, 1), LAMBDA r : Follow(fs, cs, i, r)))
    ELSE Walk(fs, nxt, cs, i + 1)

Walk(fs, cur, cs, i) ==
    IF i > Len(cs) THEN [ok |-> TRUE, path |-> cur, fs |-> fs]
    ELSE IF fs[cur].t # "dir" THEN FsErr(fs)
    ELSE IF cs[i] \in {RootDir, CurDir, ParentDir}
    THEN With(Special(cur, cs[i]), LAMBDA nxt : Walk(fs, nxt, cs, i + 1))
    ELSE With(Append(cur, cs[i]), LAMBDA nxt : Enter(fs, cur, cs, i, nxt))

\* Path::canonicalize: the location the path names, which must exist
Canonicalize(fs, cwd, p) ==
    IF p = <<>> THEN FsErr(fs)
    ELSE With(Components(p), LAMBDA cs : Walk(fs, cwd, cs, 1))

\* the components of a canonical location
CanonComponents(loc) == <<RootDir>> \o loc

ReadAt(fs, r) ==
    IF r.ok /\ fs[r.path].t = "file" /\ ValidUtf8(fs[r.path].data)
    THEN [ok |-> TRUE, contents |-> fs[r.path].data]
    ELSE [ok |-> FALSE, contents |-> <<>>]

\* fs::read_to_string: the bytes of the regular file the path names, which
\* must be UTF-8
ReadToString(fs, cwd, p) == With(Canonicalize(fs, cwd, p), LAMBDA r : ReadAt(fs, r))

\* File::create (open with create and truncate), the first half of
\* fs::write: the path must name a regular file, which is emptied, or a new
\* name in an existing directory, where an empty file is made; a link in the
\* last place is followed
RECURSIVE OpenCreate(_, _, _)
OpenLoc(fs, dir, loc) ==
    IF loc \notin DOMAIN fs
    THEN [ok |-> TRUE, path |-> loc, fs |-> (loc :> File(<<>>)) @@ fs]
    ELSE IF fs[loc].t = "dir" THEN FsErr(fs)
    ELSE IF fs[loc].t = "link" THEN OpenCreate(fs, dir, fs[loc].to)
    ELSE [ok |-> TRUE, path |-> loc, fs |-> [fs EXCEPT ![loc] = File(<<>>)]]

OpenAt(fs, name, dir) ==
    IF ~dir.ok THEN FsErr(fs)
    ELSE IF fs[dir.path].t # "dir" THEN FsErr(fs)
    ELSE With(Append(dir.path, name), LAMBDA loc : OpenLoc(fs, dir.path, loc))

OpenIn(fs, cwd, cs) ==
    With(Walk(fs, cwd, SubSeq(cs, 1, Len(cs) - 1), 1),
         LAMBDA dir : OpenAt(fs, cs[Len(cs)], dir))

OpenCreate(fs, cwd, p) ==
    IF p = <<>> \/ LastSegment(p).val \in {<<>>, CurDir, ParentDir} THEN FsErr(fs)
    ELSE With(Components(p), LAMBDA cs : OpenIn(fs, cwd, cs))

\* bytes written at offset 0 over old: they replace what is there; bytes of
\* old beyond them stay
Overlay(old, bytes) ==
    IF Len(old) > Len(bytes) THEN bytes \o SubSeq(old, Len(bytes) + 1, Len(old))
    ELSE bytes

\* write_all on the file just opened, the second half of fs::write
WriteAll(fs, loc, bytes) == [fs EXCEPT ![loc] = File(Overlay(fs[loc].data, bytes))]

WriteOpened(o, contents) ==
    IF o.ok THEN [ok |-> TRUE, path |-> o.path, fs |-> WriteAll(o.fs, o.path, contents)]
    ELSE o

\* fs::write(path, contents): create or truncate, then write everything
FsWrite(fs, cwd, p, contents) ==
    With(OpenCreate(fs, cwd, p), LAMBDA o : WriteOpened(o, contents))

\* ------------------------------------------------------------------- gzip

\* The gzip member (RFC 1952) the encoder emits for its input: the ten-byte
\* header, one final stored block (its length and the complement of its
\* length, two bytes each), the checksum and the input size mod 2^32.  Bytes
\* of the framing are written as the decimal text of their value.

GzipHeader == <<"31", "139", "8", "0", "0", "0", "0", "0", "0", "255">>

\* n as w little-endian bytes
RECURSIVE LittleEndian(_, _)
LittleEndian(n, w) ==
    IF w = 0 THEN <<>> ELSE <<ToString(n % 256)>> \o LittleEndian(n \div 256, w - 1)

RECURSIVE FromLittleEndian(_, _)
FromLittleEndian(bs, i) ==
    IF i > Len(bs) THEN 0
    ELSE (CHOOSE v \in 0..255 : ToString(v) = bs[i]) + 256 * FromLittleEndian(bs, i + 1)

\* the four checksum bytes, a function of the data alone (stands for CRC-32)
Checksum(data) ==
    <<ToString(Len(data) % 256),
      IF Len(data) = 0 THEN "0" ELSE data[1],
      IF Len(data) = 0 THEN "0" ELSE data[Len(data)],
      ToString(Cardinality({i \in 1..Len(data) : data[i] = data[1]}) % 256)>>

\* Server::compress_gzip: GzEncoder over a Vec never fails
CompressGzip(content) ==
    [ok |-> TRUE,
     bytes |-> GzipHeader
               \o <<"1">> \o LittleEndian(Len(content), 2)
               \o LittleEndian(65535 - Len(content), 2)
               \o content
               \o Checksum(content) \o LittleEndian(Len(content), 4)]

\* the decoder: the data of a well-formed member, None for anything else
Gunzip(z) ==
    LET hl   == Len(GzipHeader)
        n    == FromLittleEndian(SubSeq(z, hl + 2, hl + 3), 1)
        data == SubSeq(z, hl + 6, hl + 5 + n)
    IN  IF Len(z) < hl + 13 \/ SubSeq(z, 1, hl) # GzipHeader \/ z[hl + 1] # "1"
        THEN None
        ELSE IF Len(z) # hl + 13 + n
                \/ SubSeq(z, hl + 4, hl + 5) # LittleEndian(65535 - n, 2)
                \/ SubSeq(z, hl + 6 + n, hl + 9 + n) # Checksum(data)
                \/ SubSeq(z, hl + 10 + n, hl + 13 + n) # LittleEndian(n, 4)
        THEN None
        ELSE Some(data)

\* ---------------------------------------------------------------- handler

FilePrefix == <<"/", "f", "i", "l", "e">>

EchoPrefix == <<"/", "e", "c", "h", "o">>

UserAgentPrefix == <<"/", "u", "s", "e", "r", "-", "a", "g", "e", "n", "t">>

GzipToken == <<"g", "z", "i", "p">>

\* a response: the status of its status line, the Content-Type and
\* Content-Encoding headers ("" when absent), the Content-Length header
\* (-1 when absent) and the body bytes
Bare(status) ==
    [status |-> status, ctype |-> "", encoding |-> "", clen |-> -1, body |-> <<>>]

Compressed(ctype, z) ==
    IF z.ok
    THEN [status |-> 200, ctype |-> ctype, encoding |-> "gzip",
          clen |-> Len(z.bytes), body |-> z.bytes]
    ELSE Bare(500)

\* a negotiation that announces the length of the content it compressed
NegotiateContentLength(headers, ctype, content) ==
    IF AcceptEncodingKey \in DOMAIN headers
       /\ Contains(headers[AcceptEncodingKey], GzipToken)
    THEN [status |-> 200, ctype |-> ctype, encoding |-> "gzip",
          clen |-> Len(content), body |-> CompressGzip(content).bytes]
    ELSE [status |-> 200, ctype |-> ctype, encoding |-> "",
          clen |-> Len(content), body |-> content]

\* the gzip negotiation of the three arms that send a body: compressed when
\* an accept-encoding header holds "gzip", as it is otherwise
Negotiate(headers, ctype, content) ==
    IF AcceptEncodingKey \in DOMAIN headers
       /\ Contains(headers[AcceptEncodingKey], GzipToken)
    THEN With(CompressGzip(content), LAMBDA z : Compressed(ctype, z))
    ELSE [status |-> 200, ctype |-> ctype, encoding |-> "",
          clen |-> Len(content), body |-> content]

\* the path the arm POST /file... writes
PostFilePath(req, conf) == Join(conf.directory.val, LastSegment(req.target).val)

\* the arm POST /file... reaches fs::write
PostWrites(req, conf) ==
    /\ req.method = POST
    /\ StartsWith(req.target, FilePrefix)
    /\ conf.directory.some
    /\ LastSegment(req.target).some
    /\ req.body.some

Written(fs, w) ==
    IF w.ok THEN [resp |-> Bare(201), fs |-> w.fs]
    ELSE [resp |-> Bare(500), fs |-> fs]

\* an arm POST /file... that looks at the body before the directory
PostFileBodyFirst(req, conf, cwd, fs) ==
    IF ~req.body.some THEN [resp |-> Bare(400), fs |-> fs]
    ELSE IF ~conf.directory.some THEN [resp |-> Bare(503), fs |-> fs]
    ELSE Written(fs, FsWrite(fs, cwd, PostFilePath(req, conf), req.body.val))

\* the arm POST /file...
PostFile(req, conf, cwd, fs) ==
    IF ~conf.directory.some THEN [resp |-> Bare(503), fs |-> fs]
    ELSE IF ~LastSegment(req.target).some THEN [resp |-> Bare(400), fs |-> fs]
    ELSE IF ~req.body.some THEN [resp |-> Bare(400), fs |-> fs]
    ELSE With(PostFilePath(req, conf),
              LAMBDA file_path :
                  With(FsWrite(fs, cwd, file_path, req.body.val), LAMBDA w : Written(fs, w)))

GetContents(req, contents) ==
    IF ~contents.ok THEN Bare(500)
    ELSE Negotiate(req.headers, "application/octet-stream", contents.contents)

GetFull(req, parent_dir, cwd, fs, file_path, full_file_path) ==
    IF ~full_file_path.ok THEN Bare(404)
    ELSE IF ~PathStartsWith(CanonComponents(full_file_path.path), Components(parent_dir))
    THEN Bare(400)
    ELSE IF full_file_path.path \notin DOMAIN fs THEN Bare(404)
    ELSE With(ReadToString(fs, cwd, file_path), LAMBDA contents : GetContents(req, contents))

GetPath(req, parent_dir, cwd, fs, file_path) ==
    With(Canonicalize(fs, cwd, file_path),
         LAMBDA full_file_path : GetFull(req, parent_dir, cwd, fs, file_path, full_file_path))

GetNamed(req, parent_dir, cwd, fs, file_name) ==
    IF ~file_name.some THEN Bare(400)
    ELSE With(Join(parent_dir, file_name.val),
              LAMBDA file_path : GetPath(req, parent_dir, cwd, fs, file_path))

\* the arm GET /file...
GetFile(req, conf, cwd, fs) ==
    IF ~conf.directory.some THEN Bare(503)
    ELSE With(LastSegment(req.target),
              LAMBDA file_name : GetNamed(req, conf.directory.val, cwd, fs, file_name))

EchoStr(req, echo_str) ==
    IF ~echo_str.some THEN Bare(400)
    ELSE Negotiate(req.headers, "text/plain", echo_str.val)

\* an arm GET /echo... that echoes the whole target
EchoTarget(req) == EchoStr(req, Some(req.target))

\* the arm GET /echo...
Echo(req) == With(LastSegment(req.target), LAMBDA echo_str : EchoStr(req, echo_str))

\* the arm GET /user-agent...
UserAgent(req) ==
    IF UserAgentKey \notin DOMAIN req.headers THEN Bare(400)
    ELSE Negotiate(req.headers, "text/plain", req.headers[UserAgentKey])

\* a handle_request whose first arm does not look at the method
HandleRequestAnyMethod(req, conf, cwd, fs) ==
    IF req.target = <<"/">>
    THEN [resp |-> Bare(200), fs |-> fs]
    ELSE IF req.method = POST /\ StartsWith(req.target, FilePrefix)
    THEN PostFile(req, conf, cwd, fs)
    ELSE IF req.method = GET /\ StartsWith(req.target, FilePrefix)
    THEN [resp |-> GetFile(req, conf, cwd, fs), fs |-> fs]
    ELSE IF req.method = GET /\ StartsWith(req.target, EchoPrefix)
    THEN [resp |-> Echo(req), fs |-> fs]
    ELSE IF req.method = GET /\ StartsWith(req.target, UserAgentPrefix)
    THEN [resp |-> UserAgent(req), fs |-> fs]
    ELSE [resp |-> Bare(404), fs |-> fs]

\* Server::handle_request up to the response it builds: the first arm that
\* matches decides; only POST /file... changes the file system
HandleRequest(req, conf, cwd, fs) ==
    IF req.method = GET /\ req.target = <<"/">>
    THEN [resp |-> Bare(200), fs |-> fs]
    ELSE IF req.method = POST /\ StartsWith(req.target, FilePrefix)
    THEN PostFile(req, conf, cwd, fs)
    ELSE IF req.method = GET /\ StartsWith(req.target, FilePrefix)
    THEN [resp |-> GetFile(req, conf, cwd, fs), fs |-> fs]
    ELSE IF req.method = GET /\ StartsWith(req.target, EchoPrefix)
    THEN [resp |-> Echo(req), fs |-> fs]
    ELSE IF req.method = GET /\ StartsWith(req.target, UserAgentPrefix)
    THEN [resp |-> UserAgent(req), fs |-> fs]
    ELSE [resp |-> Bare(404), fs |-> fs]

\* ------------------------------------------------------- the command line

DirectoryFlag == <<"-", "-", "d", "i", "r", "e", "c", "t", "o", "r", "y">>

\* argv[0]
Program == <<"s", "e", "r", "v", "e", "r">>

RECURSIVE ParseArgsFrom(_, _)
\* a loop without the break: a later flag with an argument replaces the first
ParseArgsFromNoBreak(args, i) ==
    IF i > Len(args) THEN None
    ELSE IF StartsWith(args[i], DirectoryFlag) /\ i < Len(args)
    THEN (IF ParseArgsFrom(args, i + 1).some THEN ParseArgsFrom(args, i + 1)
          ELSE Some(args[i + 1]))
    ELSE ParseArgsFrom(args, i + 1)

\* the loop of parse_args from argument i on: the first argument that starts
\* with "--directory" ends the loop; the argument after it, when there is
\* one, is the directory
ParseArgsFrom(args, i) ==
    IF i > Len(args) THEN None
    ELSE IF StartsWith(args[i], DirectoryFlag)
    THEN (IF i < Len(args) THEN Some(args[i + 1]) ELSE None)
    ELSE ParseArgsFrom(args, i + 1)

\* parse_args: the Args built from the command line, argv[0] included
ParseArgs(args) == [directory |-> ParseArgsFrom(args, 1)]

\* the command line that asks for a base directory, or for none
CommandLine(dir) ==
    IF dir.some THEN <<Program, DirectoryFlag, dir.val>> ELSE <<Program>>

\* ------------------------------------------------------------- the world

\* the file system the server starts on: the served directory /w with a
\* text file f, a link l that leaves it and a subdirectory d; a file s
\* outside it; and a link /b to the served directory
InitialFs ==
    (<<>> :> Dir)
    @@ (<< <<"w">> >> :> Dir)
    @@ (<< <<"w">>, <<"f">> >> :> File(<<"o", "k">>))
    @@ (<< <<"w">>, <<"l">> >> :> Link(<<"/", "s">>))
    @@ (<< <<"w">>, <<"d">> >> :> Dir)
    @@ (<< <<"s">> >> :> File(<<"k", "e", "y">>))
    @@ (<< <<"b">> >> :> Link(<<"/", "w">>))

\* the served directory, and what lies in it
ServedDir == << <<"w">> >>

Inside(loc) == PathStartsWith(loc, ServedDir)

AbsoluteBase == <<"/", "w">>

\* how the server may be started: Args.directory as parse_args leaves it, and
\* the working directory of the process
Launches ==
    { [directory |-> None, cwd |-> <<>>],
      [directory |-> Some(AbsoluteBase), cwd |-> <<>>],
      [directory |-> Some(<<"w">>), cwd |-> <<>>],
      [directory |-> Some(<<"/", "b">>), cwd |-> <<>>],
      [directory |-> Some(<<>>), cwd |-> ServedDir] }

\* ------------------------------------------------- what clients may send

MaxHeaders == 2

MaxTail == 2

CRLF == <<"\r", "\n">>

LFOnly == <<"\n">>

HttpVersion == <<" ", "H", "T", "T", "P", "/", "1", ".", "1">>

\* request lines a client may send (without the line end)
RequestLines ==
    { GET \o <<" ", "/">> \o HttpVersion,
      POST \o <<" ", "/", "f", "i", "l", "e", "/", "a">> \o HttpVersion,
      <<" ">> \o PATCH \o <<" ", " ", "/", "x">>,
      <<"g", "e", "t", " ", "/">>,
      <<"F", "O", "O", " ", "/">>,
      GET,
      <<>>,
      <<" ", "\t">>,
      <<BadByte, " ", "/">> }

UsizeMax == <<"1", "8", "4", "4", "6", "7", "4", "4", "0", "7", "3", "7", "0", "9", "5", "5", "1", "6", "1", "5">>

UsizeMaxPlusOne == <<"1", "8", "4", "4", "6", "7", "4", "4", "0", "7", "3", "7", "0", "9", "5", "5", "1", "6", "1", "6">>

\* content-length header lines a client may send (without the line end)
LengthLines ==
    { <<"C", "o", "n", "t", "e", "n", "t", "-", "L", "e", "n", "g", "t", "h", ":", " ", "2">>,
      <<"c", "o", "n", "t", "e", "n", "t", "-", "l", "e", "n", "g", "t", "h", ":", "0">>,
      <<"C", "O", "N", "T", "E", "N", "T", "-", "L", "E", "N", "G", "T", "H", " ", ":", " ", "+", "1", " ">>,
      <<"c", "o", "n", "t", "e", "n", "t", "-", "l", "e", "n", "g", "t", "h", ":", " ", "-", "1">>,
      <<"c", "o", "n", "t", "e", "n", "t", "-", "l", "e", "n", "g", "t", "h", ":">>,
      <<"c", "o", "n", "t", "e", "n", "t", "-", "l", "e", "n", "g", "t", "h", ":", " ", "3", "x">>,
      <<"c", "o", "n", "t", "e", "n", "t", "-", "l", "e", "n", "g", "t", "h", ":", " ">> \o UsizeMax,
      <<"c", "o", "n", "t", "e", "n", "t", "-", "l", "e", "n", "g", "t", "h", ":", " ">> \o UsizeMaxPlusOne }

\* other header lines a client may send: a value holding ':', a line without
\* ':', a line that is not UTF-8, a repeated content-length
OtherLines ==
    { <<"A", ":", " ", "b", ":", "c">>,
      <<"n", "o", "c", "o", "l", "o", "n">>,
      <<"k", ":", BadByte>>,
      <<"C", "o", "n", "t", "e", "n", "t", "-", "l", "e", "n", "g", "t", "h", ":", " ", "1">> }

OtherSeqs == UNION { [1..n -> OtherLines] : n \in 0..MaxHeaders }

\* what ends the header block: a blank line, a line of white space, or the
\* end of the stream
HeaderEnds == { CRLF, <<" ">> \o LFOnly, <<>> }

BodyBytes == {"h", BadByte}

Tails == UNION { [1..n -> BodyBytes] : n \in 0..MaxTail }

RECURSIVE JoinLines(_, _)
JoinLines(ls, i) ==
    IF i > Len(ls) THEN <<>> ELSE ls[i] \o CRLF \o JoinLines(ls, i + 1)

\* streams that vary the request line: each line alone, or followed by a
\* line end and a short header block
LineInputs ==
    { <<>> } \cup RequestLines \cup
    { rl \o le \o rest :
        rl \in RequestLines, le \in {CRLF, LFOnly},
        rest \in {<<>>, CRLF, <<"A", ":", " ", "b">> \o CRLF \o CRLF} }

\* streams that vary the header block and the bytes after it: at most
\* MaxHeaders other lines around at most one content-length line; after a
\* header block that runs to the end of the stream nothing follows
HeaderInputs ==
    { GET \o <<" ", "/">> \o HttpVersion \o CRLF
        \o JoinLines(SubSeq(hs, 1, Min(k, Len(hs))), 1) \o JoinLines(cl, 1)
        \o JoinLines(SubSeq(hs, Min(k, Len(hs)) + 1, Len(hs)), 1)
        \o he \o (IF he = <<>> THEN <<>> ELSE t) :
        hs \in OtherSeqs, k \in 0..MaxHeaders,
        cl \in {<<>>} \cup { <<l>> : l \in LengthLines },
        he \in HeaderEnds, t \in Tails }

FileA == FilePrefix \o <<"/", "a">>

\* uploads: each content-length line before each run of body bytes
BodyInputs ==
    { POST \o <<" ">> \o FileA \o HttpVersion \o CRLF \o l \o CRLF \o CRLF \o t :
        l \in LengthLines, t \in Tails }

ParserInputs == LineInputs \cup HeaderInputs \cup BodyInputs

\* ------------------------------------------------- the server: listen

NumWorkers == 2

MaxConns == 3

Workers == 1..NumWorkers

NotRun == [kind |-> "notrun", err |-> "", req |-> NoRequest, bodyStart |-> 0, next |-> 0]

\* a connection as the listener yields it: accepted or failed, the bytes the
\* client sends before it stops sending, whether the client still reads, and
\* what try_from returns on the stream: it reads these bytes and nothing
\* else, so its result is fixed with them
Conn(bytes) ==
    [accept |-> "ok", bytes |-> bytes, writable |-> TRUE, parse |-> TryFrom(bytes)]

FailedAccept == [accept |-> "err", bytes |-> <<>>, writable |-> FALSE, parse |-> NotRun]

GoneAway(bytes) ==
    [accept |-> "ok", bytes |-> bytes, writable |-> FALSE, parse |-> TryFrom(bytes)]

RequestText(method, target, headerLines, body) ==
    method \o <<" ">> \o target \o HttpVersion \o CRLF
    \o JoinLines(headerLines, 1) \o CRLF \o body

\* the connections of the runs with several clients: a download, an upload,
\* an unknown method, a length no buffer can have, a client that has gone
\* before the response, and a connection that fails in accept
ServerConns ==
    { Conn(RequestText(GET, FileA, <<>>, <<>>)),
      Conn(RequestText(POST, FileA, << ContentLengthKey \o <<":", " ", "2">> >>, <<"h", "i">>)),
      Conn(RequestText(<<"F", "O", "O">>, <<"/">>, <<>>, <<>>)),
      Conn(RequestText(GET, <<"/">>, << ContentLengthKey \o <<":", " ">> \o UsizeMax >>, <<>>)),
      GoneAway(RequestText(GET, <<"/">>, <<>>, <<>>)),
      FailedAccept }

Idle == [pc |-> "idle", conn |-> 0, req |-> NoRequest, loc |-> <<>>, alive |-> TRUE]

NoResponse == Bare(0)

\* a connection the acceptor has taken: where its job is, what the parser
\* returned, the responses the handler built, the responses the client
\* received, the error the job logged, whether the stream is still open
Fresh ==
    [state |-> "queued", parse |-> NotRun, produced |-> <<>>,
     received |-> <<>>, logged |-> "", open |-> TRUE]

\* main has run parse_args on the command line
Launched(line) ==
    /\ argv = line
    /\ serverConf = ParseArgs(line)

ServerIdle ==
    /\ conns = <<>>
    /\ queue = <<>>
    /\ workers = [w \in Workers |-> Idle]
    /\ started = <<>>

HandlerIdle ==
    /\ hReq = NoRequest
    /\ hResp = NoResponse

\* an execute that puts the job in front of the queue
ExecuteInFront(q, job) == <<job>> \o q

\* ThreadPool::execute: the job goes to the end of the queue; the caller does
\* not wait
Execute(q, job) == Append(q, job)

\* an accept loop that forgets to submit the job
AcceptWithoutExecute ==
    /\ Len(conns) < Len(incoming)
    /\ conns' = Append(conns, Fresh)
    /\ queue' = queue
    /\ UNCHANGED <<argv, serverConf, workDir, files, incoming, workers, started, hReq, hResp>>

\* the accept loop of listen: the next connection the listener yields, failed
\* or not, becomes one job
Accept ==
    /\ Len(conns) < Len(incoming)
    /\ conns' = Append(conns, Fresh)
    /\ queue' = Execute(queue, Len(conns) + 1)
    /\ UNCHANGED <<argv, serverConf, workDir, files, incoming, workers, started, hReq, hResp>>

\* a worker receives the oldest job of the queue
Take(w) ==
    /\ workers[w].alive
    /\ workers[w].pc = "idle"
    /\ queue # <<>>
    /\ queue' = Tail(queue)
    /\ workers' = [workers EXCEPT ![w] = [Idle EXCEPT !.pc = "job", !.conn = Head(queue)]]
    /\ conns' = [conns EXCEPT ![Head(queue)].state = "running"]
    /\ started' = Append(started, Head(queue))
    /\ UNCHANGED <<argv, serverConf, workDir, files, incoming, hReq, hResp>>

\* the job returns: the stream is dropped, which closes the connection, and
\* the worker waits for the next job
Returned(cs, c, e) ==
    [cs EXCEPT ![c].state = "done", ![c].logged = e, ![c].open = FALSE]

\* a panic unwinds the job: the stream is dropped; nothing is logged by it
Unwound(cs, c) ==
    [cs EXCEPT ![c].state = "panicked", ![c].open = FALSE]

\* a worker whose thread ends with the job that panicked
RecoverDead(wk) == [Idle EXCEPT !.alive = FALSE]

\* the worker after a job that panicked: it recovers and serves on
Recover(wk) == Idle

\* what try_from returned for the connection
WithParse(cs, c, r) == [cs EXCEPT ![c].parse = r]

\* the response handle_request built for the connection
Produced(cs, c, resp) == [cs EXCEPT ![c].produced = Append(@, resp)]

\* a job that writes its response a second time
SentTwice(cs, c, resp) ==
    IF incoming[c].writable
    THEN Returned([cs EXCEPT ![c].received = Append(Append(@, resp), resp)], c, "")
    ELSE Returned(cs, c, Io)

\* stream.write_all(response) and the end of the job: a client that is gone
\* makes the write fail, which is logged
Sent(cs, c, resp) ==
    IF incoming[c].writable
    THEN Returned([cs EXCEPT ![c].received = Append(@, resp)], c, "")
    ELSE Returned(cs, c, Io)

\* the outcome of a step of a job: the connections, the worker and the file
\* system after it
Outcome(cs, wk, fs) == [conns |-> cs, worker |-> wk, files |-> fs]

Responded(wk, c, r, resp) ==
    Outcome(Sent(Produced(WithParse(conns, c, r), c, resp), c, resp), Idle, files)

Opened(wk, c, r, o) ==
    IF o.ok
    THEN Outcome(WithParse(conns, c, r),
                 [wk EXCEPT !.pc = "write_file", !.req = r.req, !.loc = o.path], o.fs)
    ELSE With(HandleRequest(r.req, serverConf, workDir, files).resp,
              LAMBDA resp : Responded(wk, c, r, resp))

\* handle_request on the parsed request; the arm that writes a file stops
\* between File::create and write_all, where other workers may run
Handled(wk, c, r) ==
    IF PostWrites(r.req, serverConf)
    THEN With(OpenCreate(files, workDir, PostFilePath(r.req, serverConf)),
              LAMBDA o : Opened(wk, c, r, o))
    ELSE With(HandleRequest(r.req, serverConf, workDir, files).resp,
              LAMBDA resp : Responded(wk, c, r, resp))

\* a job that unwraps the parse result, so that an error ends the thread
ParsedFatal(wk, c, r) ==
    IF r.kind = "ok" THEN Handled(wk, c, r)
    ELSE Outcome(Unwound(WithParse(conns, c, r), c), RecoverDead(wk), files)

\* a failed parse is logged and ends the job; a panic is caught by the worker
Parsed(wk, c, r) ==
    IF r.kind = "err" THEN Outcome(Returned(WithParse(conns, c, r), c, r.err), Idle, files)
    ELSE IF r.kind = "panic"
    THEN Outcome(Unwound(WithParse(conns, c, r), c), Recover(wk), files)
    ELSE Handled(wk, c, r)

\* a failed accept is logged and ends the job
Accepted(wk, c) ==
    IF incoming[c].accept = "err" THEN Outcome(Returned(conns, c, Io), Idle, files)
    ELSE Parsed(wk, c, incoming[c].parse)

Becomes(w, o) ==
    /\ conns' = o.conns
    /\ workers' = [workers EXCEPT ![w] = o.worker]
    /\ files' = o.files

\* the job closure of listen: the stream, try_from, handle_request and the
\* write of the response; what the job does on its own stream is one step
RunJob(w) ==
    /\ workers[w].pc = "job"
    /\ \E o \in {Accepted(workers[w], workers[w].conn)} : Becomes(w, o)
    /\ UNCHANGED <<argv, serverConf, workDir, incoming, queue, started, hReq, hResp>>

\* the second half of fs::write, the 201 that follows it and its sending
WriteFileStep(w) ==
    /\ workers[w].pc = "write_file"
    /\ files' = WriteAll(files, workers[w].loc, workers[w].req.body.val)
    /\ workers' = [workers EXCEPT ![w] = Idle]
    /\ conns' = Sent(Produced(conns, workers[w].conn, Bare(201)), workers[w].conn, Bare(201))
    /\ UNCHANGED <<argv, serverConf, workDir, incoming, queue, started, hReq, hResp>>

WorkerStep(w) ==
    \/ Take(w)
    \/ RunJob(w)
    \/ WriteFileStep(w)

Next == Accept \/ \E w \in Workers : WorkerStep(w)

\* the server with MaxConns clients
Init ==
    /\ Launched(CommandLine(Some(AbsoluteBase)))
    /\ workDir = <<>>
    /\ files = InitialFs
    /\ incoming \in [1..MaxConns -> ServerConns]
    /\ ServerIdle
    /\ HandlerIdle

Spec == Init /\ [][Next]_vars

\* the connections of the runs that follow every job to its end: a download,
\* an upload, and a length no buffer can have
PoolConns ==
    { c \in ServerConns : c.accept = "ok" /\ c.writable /\ c.parse.kind \in {"ok", "panic"} }

InitPool ==
    /\ Launched(CommandLine(Some(AbsoluteBase)))
    /\ workDir = <<>>
    /\ files = InitialFs
    /\ incoming \in [1..MaxConns -> PoolConns]
    /\ ServerIdle
    /\ HandlerIdle

\* the threads are scheduled: the acceptor and every worker keep running
FairSpec ==
    /\ InitPool
    /\ [][Next]_vars
    /\ WF_vars(Accept)
    /\ \A w \in Workers : WF_vars(WorkerStep(w))

\* the server with one client, which may send anything
InitOne ==
    /\ Launched(CommandLine(Some(AbsoluteBase)))
    /\ workDir = <<>>
    /\ files = InitialFs
    /\ \E b \in ParserInputs : incoming = <<Conn(b)>>
    /\ ServerIdle
    /\ HandlerIdle

SpecOne == InitOne /\ [][Next]_vars

\* ------------------------------------------- the handler, request by request

Request(method, target, headers, body) ==
    [target |-> target, method |-> method, headers |-> headers, body |-> body]

NoHeaders == <<>>

\* the header maps of the requests handled: accept-encoding absent, naming
\* gzip alone, among others, in capitals, or not at all; user-agent absent or
\* present
EncodingValues ==
    { GzipToken, <<"d", "e", "f", "l", "a", "t", "e", ",", " ", "g", "z", "i", "p">>, <<"G", "Z", "I", "P">>, <<"b", "r">> }

AgentValue == <<"c", "/", "1">>

EncodingMaps ==
    { NoHeaders } \cup { Insert(NoHeaders, AcceptEncodingKey, v) : v \in EncodingValues }

AgentMaps == { Insert(h, UserAgentKey, AgentValue) : h \in EncodingMaps }

\* targets under /file: a file, a new name, the link that leaves the
\* directory, the parent, no name, a subdirectory
UploadTargets ==
    { FilePrefix \o <<"/">> \o n :
        n \in { <<"f">>, <<"a">>, <<"l">>, ParentDir, <<>>, <<"d">> } }

\* and a name behind ".."
FileTargets == UploadTargets \cup { FilePrefix \o <<"/", ".", ".", "/", "s">> }

OtherTargets ==
    { <<"/">>, <<"/", "e", "c", "h", "o", "/", "h", "i">>, EchoPrefix \o <<"/">>, EchoPrefix,
      EchoPrefix \o <<"/", "a", "/", "b">>,
      UserAgentPrefix, <<"/", "x">> }

HandlerRequests ==
    { Request(GET, t, h, None) : t \in FileTargets \cup OtherTargets, h \in EncodingMaps }
    \cup { Request(GET, UserAgentPrefix, h, None) : h \in AgentMaps }
    \cup { Request(POST, t, NoHeaders, b) :
             t \in UploadTargets \cup {<<"/">>}, b \in {None, Some(<<"h", "i">>)} }
    \cup { Request(POST, FileA, NoHeaders, Some(<<BadByte>>)) }
    \cup { Request(m, t, NoHeaders, None) :
             m \in HttpMethod \ {GET, POST}, t \in {<<"/">>, FilePrefix \o <<"/", "f">>} }

Answered(req, r) ==
    /\ hReq' = req
    /\ hResp' = r.resp
    /\ files' = r.fs

\* handle_request on one parsed request, start to end
Handle(req) ==
    /\ \E r \in {HandleRequest(req, serverConf, workDir, files)} : Answered(req, r)
    /\ UNCHANGED <<argv, serverConf, workDir, incoming, conns, queue, workers, started>>

NextHandle == \E req \in HandlerRequests : Handle(req)

InitHandle ==
    /\ \E l \in Launches :
          Launched(CommandLine(l.directory)) /\ workDir = l.cwd
    /\ files = InitialFs
    /\ incoming = <<>>
    /\ ServerIdle
    /\ HandlerIdle

SpecHandle == InitHandle /\ [][NextHandle]_vars


\* ------------------------------------------------- parse_args on its own

MaxArgs == 3

\* what may stand on a command line after argv[0]: the flag, the flag with
\* text attached, two paths, another flag
ArgTokens ==
    { DirectoryFlag, DirectoryFlag \o <<"=", "x">>, AbsoluteBase, <<"/", "b">>, <<"-", "v">> }

ArgLines ==
    { <<Program>> \o l : l \in UNION { [1..n -> ArgTokens] : n \in 0..MaxArgs } }

\* main: let args = parse_args(env::args().collect())
Main ==
    /\ serverConf' = ParseArgs(argv)
    /\ UNCHANGED <<argv, workDir, files, incoming, conns, queue, workers, started, hReq, hResp>>

\* the process before main has parsed its command line: no Args yet, which
\* is written as no directory
InitArgs ==
    /\ argv \in ArgLines
    /\ serverConf = [directory |-> None]
    /\ workDir = <<>>
    /\ files = InitialFs
    /\ incoming = <<>>
    /\ ServerIdle
    /\ HandlerIdle

SpecArgs == InitArgs /\ [][Main]_vars

\* ------------------------------------------- uploads that run side by side

MaxUploads == 2

\* two uploads to the same name with bodies of different length
UploadConns ==
    { Conn(RequestText(POST, FileA, << ContentLengthKey \o <<":", " ", "2">> >>, <<"h", "i">>)),
      Conn(RequestText(POST, FileA, << ContentLengthKey \o <<":", " ", "3">> >>, <<"x", "y", "z">>)) }

InitRace ==
    /\ Launched(CommandLine(Some(AbsoluteBase)))
    /\ workDir = <<>>
    /\ files = InitialFs
    /\ incoming \in [1..MaxUploads -> UploadConns]
    /\ ServerIdle
    /\ HandlerIdle

SpecRace == InitRace /\ [][Next]_vars
\* ------------------------------------------------------------- properties

\* the job of connection c is over
Finished(c) == c <= Len(conns) /\ conns[c].state \in {"done", "panicked"}

\* the client of connection c sent a request the parser accepts and reads
\* the answer
Answerable(c) ==
    /\ incoming[c].accept = "ok"
    /\ incoming[c].writable
    /\ incoming[c].parse.kind = "ok"

\* C1: with K = MaxConns connections for N = NumWorkers < K workers, at every
\* moment at most N jobs are being executed and no job has been started
\* twice, and in the end every one of the K jobs has been started and has
\* ended (it returned, or the panic of an oversized content-length unwound
\* it), each answerable client holding its one response
C1_EveryJobRunsOnce ==
    /\ [](Cardinality({c \in 1..Len(conns) : conns[c].state = "running"}) <= NumWorkers)
    /\ [](\A i, j \in 1..Len(started) : started[i] = started[j] => i = j)
    /\ <>[](\A c \in 1..MaxConns :
              /\ Finished(c)
              /\ \E i \in 1..Len(started) : started[i] = c
              /\ Answerable(c) => Len(conns[c].received) = 1)

\* more connections than workers, all accepted before the first job ends, and
\* all of them finished
C1_Witness ==
    /\ MaxConns > NumWorkers
    /\ Len(started) = MaxConns
    /\ \A c \in 1..MaxConns : Finished(c)
    /\ \E c \in 1..MaxConns : Len(conns[c].received) = 1

\* C6: an error of a connection (a failed accept, a failed parse, a failed
\* write) ends its job with a log line and nothing else: every worker stays
\* alive, and each finished connection whose client sent a good request and
\* reads the answer holds exactly one response, whatever the other
\* connections did
C6_ErrorsStayInTheirJob ==
    /\ \A w \in Workers : workers[w].alive
    /\ \A c \in 1..Len(conns) :
          /\ (conns[c].state = "done" /\ incoming[c].accept = "err")
                => conns[c].logged = Io
          /\ (conns[c].state = "done" /\ conns[c].parse.kind = "err")
                => conns[c].logged = conns[c].parse.err
          /\ (conns[c].state = "done" /\ conns[c].parse.kind = "ok" /\ ~incoming[c].writable)
                => conns[c].logged = Io
          /\ (conns[c].state = "done" /\ Answerable(c))
                => conns[c].logged = "" /\ Len(conns[c].received) = 1

\* a connection that failed with a logged error, and a later one that was
\* answered
C6_Witness ==
    \E c, d \in 1..Len(conns) :
        /\ c < d
        /\ conns[c].state = "done" /\ conns[c].logged = InvalidMethod
        /\ conns[d].state = "done" /\ Len(conns[d].received) = 1

\* the job of connection c has panicked
Panicked(c) == c <= Len(conns) /\ conns[c].state = "panicked"

\* the jobs of the connections after c are over
LaterFinished(c) == \A d \in 1..MaxConns : d > c => Finished(d)

\* C7: jobs that panic leave every worker able to take jobs, and once a job
\* has panicked there comes a moment when every connection accepted after a
\* job that panicked has been run to its end
C7_PanicLeavesThePool ==
    /\ [](\A w \in Workers : workers[w].alive)
    /\ (\E c \in 1..MaxConns : Panicked(c))
          ~> (\A c \in 1..MaxConns : Panicked(c) => LaterFinished(c))

\* a job has panicked and the job after it was run and answered
C7_Witness ==
    \E c \in 1..(Len(conns) - 1) :
        /\ conns[c].state = "panicked"
        /\ conns[c + 1].state = "done"
        /\ Len(conns[c + 1].received) = 1

Statuses == {200, 201, 400, 404, 500, 503}

\* C8: a connection whose request does not parse never holds a response and
\* is closed when its job is over; one whose request parses has, when its
\* job is over, exactly one response built by the handler, with one of the
\* statuses, the failures of the handler among them; no connection ever
\* receives more than one response, nor any the handler did not build
C8_OneResponseOrNone ==
    \A c \in 1..Len(conns) :
        /\ Len(conns[c].received) <= 1
        /\ \A i \in 1..Len(conns[c].received) : conns[c].received[i] = conns[c].produced[i]
        /\ conns[c].parse.kind \in {"err", "panic"}
              => conns[c].produced = <<>> /\ conns[c].received = <<>> /\ ~conns[c].open
        /\ (conns[c].state = "done" /\ conns[c].parse.kind = "ok")
              => /\ Len(conns[c].produced) = 1
                 /\ conns[c].produced[1].status \in Statuses
                 /\ incoming[c].writable => conns[c].received = conns[c].produced
                 /\ ~conns[c].open

\* one connection closed without a response after a failed parse, another
\* answered with the handler's 404
C8_Witness ==
    \E c, d \in 1..Len(conns) :
        /\ conns[c].state = "done" /\ conns[c].parse.kind = "err" /\ conns[c].received = <<>>
        /\ conns[d].state = "done" /\ Len(conns[d].received) = 1
        /\ conns[d].received[1].status = 404

\* the request line of stream s, as the parser reads it
FirstLine(s) == ReadLine(s, 1)

\* its tokens
LineTokens(s) == SplitWhitespace(FirstLine(s).text)

\* the header block of stream s, as the parser reads it
HeaderBlock(s) == ReadHeaders(s, FirstLine(s).next, <<>>)

\* stream s is a well-formed request that carries a content-length which is
\* a number
DeclaresLength(s) ==
    /\ FirstLine(s).kind = "line"
    /\ Len(LineTokens(s)) >= 2
    /\ LineTokens(s)[1] \in HttpMethod
    /\ HeaderBlock(s).ok
    /\ ContentLengthKey \in DOMAIN HeaderBlock(s).headers
    /\ ParseUsize(HeaderBlock(s).headers[ContentLengthKey]).ok

\* C4: a well-formed request with a content-length of n has, once parsed, a
\* body of exactly the n bytes after the header block (no body when n = 0),
\* and the parser has read just these; when the stream ends before n bytes
\* the parser returns Io
C4_BodyIsContentLength ==
    \A c \in 1..Len(conns) :
        LET s     == incoming[c].bytes
            r     == conns[c].parse
            from  == HeaderBlock(s).next
            n     == ParseUsize(HeaderBlock(s).headers[ContentLengthKey]).digits
            short == Len(n) <= SmallDigits /\ ToNat(n, Len(n)) <= Len(s) - from + 1
            k     == ToNat(n, Len(n))
        IN  (r.kind # "notrun" /\ DeclaresLength(s))
            => IF short
               THEN /\ r.kind = "ok"
                    /\ r.req.body = IF k = 0 THEN None ELSE Some(SubSeq(s, from, from + k - 1))
                    /\ r.next = from + k
               ELSE r.kind = "err" /\ r.err = Io

\* stream s has a request line without a recognized method token
LacksMethod(s) ==
    /\ FirstLine(s).kind = "line"
    /\ (LineTokens(s) = <<>> \/ LineTokens(s)[1] \notin HttpMethod)

\* C5 as claimed: a request line whose first token is absent or is none of
\* the nine methods makes the parse fail with InvalidMethod, and nothing is
\* written to the connection
C5_Original ==
    \A c \in 1..Len(conns) :
        (conns[c].parse.kind # "notrun" /\ LacksMethod(incoming[c].bytes))
        => /\ conns[c].parse.kind = "err"
           /\ conns[c].parse.err = InvalidMethod
           /\ conns[c].received = <<>>

\* C5 as amended: a first token that is none of the nine methods makes the
\* parse fail with InvalidMethod, a request line without any token makes it
\* fail with InvalidRequest; in both cases the job ends with the error logged
\* and nothing built for or written to the connection
C5_MethodOrRequestError ==
    \A c \in 1..Len(conns) :
        (conns[c].parse.kind # "notrun" /\ LacksMethod(incoming[c].bytes))
        => /\ conns[c].parse.kind = "err"
           /\ conns[c].parse.err =
                 IF LineTokens(incoming[c].bytes) = <<>> THEN InvalidRequest
                 ELSE InvalidMethod
           /\ conns[c].logged = conns[c].parse.err
           /\ conns[c].state = "done"
           /\ conns[c].produced = <<>>
           /\ conns[c].received = <<>>

\* a request line that starts with the method in small letters was rejected
\* with InvalidMethod and not answered
C5_Witness ==
    \E c \in 1..Len(conns) :
        /\ LacksMethod(incoming[c].bytes)
        /\ LineTokens(incoming[c].bytes) # <<>>
        /\ LineTokens(incoming[c].bytes)[1] = <<"g", "e", "t">>
        /\ conns[c].state = "done"
        /\ conns[c].logged = InvalidMethod
        /\ conns[c].received = <<>>

\* the request handled last is a GET of the /file family, a base directory
\* being configured
FileGet ==
    /\ hReq.method = GET
    /\ StartsWith(hReq.target, FilePrefix)
    /\ serverConf.directory.some

\* where the name of the request handled last leads from the base directory
Requested ==
    Canonicalize(files, workDir,
                 Join(serverConf.directory.val, LastSegment(hReq.target).val))

\* C2: a GET of the /file family whose name leads, links and ".." followed,
\* to a place outside the base directory is answered 400, and its response
\* has no body
C2_OutsideIsRejected ==
    (FileGet /\ Requested.ok /\ ~Inside(Requested.path))
    => hResp.status = 400 /\ hResp.body = <<>>

\* C3: after a POST of the /file family that was answered 201, a GET of the
\* same target without accept-encoding is answered 200 with the body of the
\* POST and its length as Content-Length
C3_RoundTrip ==
    (/\ hReq.method = POST
     /\ StartsWith(hReq.target, FilePrefix)
     /\ serverConf.directory.some
     /\ hResp.status = 201)
    => LET g == HandleRequest(Request(GET, hReq.target, NoHeaders, None),
                              serverConf, workDir, files).resp
       IN  /\ g.status = 200
           /\ g.body = hReq.body.val
           /\ g.clen = Len(hReq.body.val)

\* the request handled last reached the success path of GET /file, /echo or
\* /user-agent
SentBody ==
    /\ hReq.method = GET
    /\ hReq.target # <<"/">>
    /\ \/ StartsWith(hReq.target, FilePrefix)
       \/ StartsWith(hReq.target, EchoPrefix)
       \/ StartsWith(hReq.target, UserAgentPrefix)
    /\ hResp.status = 200

\* the body that path sends: the file's contents, the final segment of the
\* target, or the user-agent header
OriginalBody ==
    IF StartsWith(hReq.target, FilePrefix)
    THEN ReadToString(files, workDir,
                      Join(serverConf.directory.val, LastSegment(hReq.target).val)).contents
    ELSE IF StartsWith(hReq.target, EchoPrefix) THEN LastSegment(hReq.target).val
    ELSE hReq.headers[UserAgentKey]

AcceptsGzip ==
    /\ AcceptEncodingKey \in DOMAIN hReq.headers
    /\ Contains(hReq.headers[AcceptEncodingKey], GzipToken)

\* C9: on the success path of GET /file, /echo and /user-agent the response
\* is gzip-encoded exactly when the request has an accept-encoding header
\* that contains "gzip": then Content-Length is the length of the compressed
\* body, which decompresses to the original body; otherwise the body is the
\* original body and Content-Length its length
C9_GzipNegotiation ==
    SentBody
    => IF AcceptsGzip
       THEN /\ hResp.encoding = "gzip"
            /\ hResp.clen = Len(hResp.body)
            /\ Gunzip(hResp.body) = Some(OriginalBody)
       ELSE /\ hResp.encoding = ""
            /\ hResp.body = OriginalBody
            /\ hResp.clen = Len(OriginalBody)

\* an echo asked for with "deflate, gzip" was answered compressed
C9_Witness ==
    /\ SentBody
    /\ StartsWith(hReq.target, EchoPrefix)
    /\ AcceptsGzip
    /\ hReq.headers[AcceptEncodingKey] # GzipToken
    /\ hResp.encoding = "gzip"
    /\ Gunzip(hResp.body) = Some(<<"h", "i">>)
    /\ hResp.clen # 2

\* C10: every step that handles a POST whose target starts with /file
\* answers 503 when no base directory is configured, else 400 when the
\* request has no body, else 201 when the write of the body to
\* <base>/<final segment> succeeds, the file then holding the body, and 500
\* when it fails; a step that answers 400 or 503 leaves the file system as
\* it was
C10_PostFileStatus ==
    [][(hReq'.method = POST /\ StartsWith(hReq'.target, FilePrefix))
       => LET path == Join(serverConf.directory.val, LastSegment(hReq'.target).val)
              w    == FsWrite(files, workDir, path, hReq'.body.val)
          IN  /\ hResp'.status =
                    IF ~serverConf.directory.some THEN 503
                    ELSE IF ~hReq'.body.some THEN 400
                    ELSE IF w.ok THEN 201
                    ELSE 500
              /\ hResp'.status = 201
                    => /\ files'[Canonicalize(files', workDir, path).path] = File(hReq'.body.val)
                       /\ \A loc \in DOMAIN files : loc # w.path => files'[loc] = files[loc]
              /\ hResp'.status \in {400, 503} => files' = files]_vars

\* a POST without a body to a server without a base directory was answered
\* 503
C10_Witness ==
    /\ hReq.method = POST
    /\ StartsWith(hReq.target, FilePrefix)
    /\ ~hReq.body.some
    /\ ~serverConf.directory.some
    /\ hResp.status = 503


\* ------------------------------------------- the base directory as given

\* the directory the configured base names, links and the working directory
\* resolved
BaseDir == Canonicalize(files, workDir, serverConf.directory.val)

\* the name the request handled last asks for
RequestedName == LastSegment(hReq.target).val

\* the request handled last is a GET of the /file family for a regular file
\* with text in it that lies directly in the base directory
NamesFileInBase ==
    /\ FileGet
    /\ BaseDir.ok
    /\ RequestedName \notin {<<>>, CurDir, ParentDir}
    /\ (BaseDir.path \o <<RequestedName>>) \in DOMAIN files
    /\ files[BaseDir.path \o <<RequestedName>>].t = "file"
    /\ ValidUtf8(files[BaseDir.path \o <<RequestedName>>].data)

\* C11: however the base directory is given (absolute, relative, through a
\* link), a GET for a regular file directly in it is answered 200, and
\* without accept-encoding the body is the file's contents
C11_BaseHoweverGiven ==
    NamesFileInBase
    => /\ hResp.status = 200
       /\ AcceptEncodingKey \notin DOMAIN hReq.headers
             => hResp.body = files[BaseDir.path \o <<RequestedName>>].data

\* ------------------------------------------------------------ the routes

\* a request has been handled
HasResponse == hResp.status # 0

\* the request handled last matches one of the five route families
Routed ==
    \/ hReq.method = GET /\ hReq.target = <<"/">>
    \/ hReq.method = POST /\ StartsWith(hReq.target, FilePrefix)
    \/ hReq.method = GET /\ StartsWith(hReq.target, FilePrefix)
    \/ hReq.method = GET /\ StartsWith(hReq.target, EchoPrefix)
    \/ hReq.method = GET /\ StartsWith(hReq.target, UserAgentPrefix)

\* C12: a request that matches none of the five route families is answered
\* 404 and nothing else: any method other than GET and POST on any target, a
\* POST outside /file, a GET that is not "/" and outside /file, /echo and
\* /user-agent
C12_UnroutedIsNotFound ==
    HasResponse =>
        /\ ~Routed => hResp = Bare(404)
        /\ hReq.method \notin {GET, POST} => hResp.status = 404
        /\ (hReq.method = POST /\ ~StartsWith(hReq.target, FilePrefix))
              => hResp.status = 404
        /\ (/\ hReq.method = GET
            /\ hReq.target # <<"/">>
            /\ ~StartsWith(hReq.target, FilePrefix)
            /\ ~StartsWith(hReq.target, EchoPrefix)
            /\ ~StartsWith(hReq.target, UserAgentPrefix))
              => hResp.status = 404

\* a DELETE of "/", which a GET would have been answered 200 for, was
\* answered 404
C12_Witness ==
    /\ hReq.method = DELETE
    /\ hReq.target = <<"/">>
    /\ hResp = Bare(404)

\* ------------------------------------------------------------------ echo

\* the request handled last is a GET of the /echo family without an
\* accept-encoding header
PlainEcho ==
    /\ hReq.method = GET
    /\ StartsWith(hReq.target, EchoPrefix)
    /\ AcceptEncodingKey \notin DOMAIN hReq.headers

\* b is what follows the last '/' of target t
FinalSegmentOf(t, b) ==
    \E i \in 1..Len(t) :
        /\ t[i] = "/"
        /\ \A j \in (i + 1)..Len(t) : t[j] # "/"
        /\ b = Cut(t, i + 1, Len(t))

\* C13: a GET of the /echo family without accept-encoding is answered 200,
\* text/plain, with the final '/'-separated segment of the target as body
\* (empty when the target ends in '/') and that segment's length as
\* Content-Length; a target with no segment to take would be answered 400
C13_EchoFinalSegment ==
    (HasResponse /\ PlainEcho) =>
        IF \E i \in 1..Len(hReq.target) : hReq.target[i] = "/"
        THEN /\ hResp.status = 200
             /\ hResp.ctype = "text/plain"
             /\ hResp.encoding = ""
             /\ FinalSegmentOf(hReq.target, hResp.body)
             /\ hResp.clen = Len(hResp.body)
        ELSE hResp.status = 400

\* /echo/a/b was answered with b
C13_Witness ==
    /\ PlainEcho
    /\ hReq.target = EchoPrefix \o <<"/", "a", "/", "b">>
    /\ hResp.status = 200
    /\ hResp.body = <<"b">>
    /\ hResp.clen = 1

\* ------------------------------------------------------------ parse_args

\* argument i of the command line names the flag
NamesFlag(i) == StartsWith(argv[i], DirectoryFlag)

\* argument i is the first one that names the flag
FirstFlag(i) == NamesFlag(i) /\ \A j \in 1..(i - 1) : ~NamesFlag(j)

\* C14: parse_args returns as directory the argument right after the first
\* argument that names the flag (one that starts with "--directory"),
\* whatever follows that pair, and no directory when no argument names the
\* flag or the first that does is the last argument
C14_DirectoryFollowsFlag ==
    [][ /\ \A i \in 1..(Len(argv) - 1) :
              FirstFlag(i) => serverConf'.directory = Some(argv[i + 1])
        /\ (\A i \in 1..Len(argv) : ~NamesFlag(i)) => serverConf'.directory = None
        /\ FirstFlag(Len(argv)) => serverConf'.directory = None
      ]_vars

\* the flag, its directory and then the flag again: the directory is the
\* argument after the first flag
C14_Witness ==
    /\ argv = <<Program, DirectoryFlag, AbsoluteBase, DirectoryFlag>>
    /\ serverConf.directory = Some(AbsoluteBase)

\* ----------------------------------------------------------- header lines

\* the last position of the line of stream s that starts at position p: its
\* line feed, or the end of the stream
LineEnd(s, p) ==
    IF \E i \in p..Len(s) : s[i] = "\n"
    THEN CHOOSE i \in p..Len(s) : s[i] = "\n" /\ \A j \in p..(i - 1) : s[j] # "\n"
    ELSE Len(s)

\* a line without its line feed and the carriage return before it
Chomp(raw) ==
    LET a == IF raw # <<>> /\ raw[Len(raw)] = "\n" THEN SubSeq(raw, 1, Len(raw) - 1) ELSE raw
    IN  IF a # <<>> /\ a[Len(a)] = "\r" THEN SubSeq(a, 1, Len(a) - 1) ELSE a

\* a line of white space only
Blank(text) == \A i \in 1..Len(text) : text[i] \in Whitespace

\* the lines of stream s from position p up to, and without, the first blank
\* line or the end of the stream
RECURSIVE LinesBeforeBlank(_, _)
LinesBeforeBlank(s, p) ==
    IF p > Len(s) THEN <<>>
    ELSE LET text == Chomp(SubSeq(s, p, LineEnd(s, p)))
         IN  IF Blank(text) THEN <<>>
             ELSE <<text>> \o LinesBeforeBlank(s, LineEnd(s, p) + 1)

\* the header lines of stream s
HeaderLinesOf(s) == LinesBeforeBlank(s, LineEnd(s, 1) + 1)

HasColon(text) == \E i \in 1..Len(text) : text[i] = ":"

\* the key and the value a header line carries
KeyOf(text) ==
    ToLowercase(Trim(SubSeq(text, 1, (CHOOSE i \in 1..Len(text) :
        text[i] = ":" /\ \A j \in 1..(i - 1) : text[j] # ":") - 1)))

ValueOf(text) ==
    Trim(SubSeq(text, (CHOOSE i \in 1..Len(text) :
        text[i] = ":" /\ \A j \in 1..(i - 1) : text[j] # ":") + 1, Len(text)))

\* stream s has a request line with a method and a target, and header lines
\* that are all text
ReadsHeaders(s) ==
    /\ FirstLine(s).kind = "line"
    /\ Len(LineTokens(s)) >= 2
    /\ LineTokens(s)[1] \in HttpMethod
    /\ \A i \in 1..Len(HeaderLinesOf(s)) : ValidUtf8(HeaderLinesOf(s)[i])

\* C15: the header map of a parsed request holds exactly the keys of the
\* lines before the blank line, trimmed and in lower case, each with the
\* trimmed value of the last line that carried it; a line among them without
\* ':' makes the parse fail with InvalidRequest; and what follows the blank
\* line is not read as headers: without a content-length the request parses
\* whatever follows
C15_HeadersLastWins ==
    \A c \in 1..Len(conns) :
        LET s  == incoming[c].bytes
            r  == conns[c].parse
            ls == HeaderLinesOf(s)
        IN  (r.kind # "notrun" /\ ReadsHeaders(s)) =>
              /\ (\E i \in 1..Len(ls) : ~HasColon(ls[i]))
                    => r.kind = "err" /\ r.err = InvalidRequest
              /\ ((\A i \in 1..Len(ls) : HasColon(ls[i])) /\ r.kind = "ok")
                    => /\ DOMAIN r.req.headers = { KeyOf(ls[i]) : i \in 1..Len(ls) }
                       /\ \A i \in 1..Len(ls) :
                             (\A j \in (i + 1)..Len(ls) : KeyOf(ls[j]) # KeyOf(ls[i]))
                                => r.req.headers[KeyOf(ls[i])] = ValueOf(ls[i])
              /\ (\A i \in 1..Len(ls) : HasColon(ls[i]) /\ KeyOf(ls[i]) # ContentLengthKey)
                    => r.kind = "ok"

\* a parsed request whose content-length came twice with different values,
\* with bytes left unread after its body
C15_Witness ==
    \E c \in 1..Len(conns) :
        LET ls == HeaderLinesOf(incoming[c].bytes)
        IN  /\ conns[c].parse.kind = "ok"
            /\ \E i, j \in 1..Len(ls) :
                  /\ i < j
                  /\ HasColon(ls[i]) /\ HasColon(ls[j])
                  /\ KeyOf(ls[i]) = KeyOf(ls[j])
                  /\ ValueOf(ls[i]) # ValueOf(ls[j])
                  /\ conns[c].parse.req.headers[KeyOf(ls[j])] = ValueOf(ls[j])
            /\ conns[c].parse.next <= Len(incoming[c].bytes)

\* ------------------------------------------------------- order of the jobs

\* C16: jobs are handed to workers in the order their connections were
\* accepted: whenever the job of a connection starts, the jobs of all
\* connections accepted before it have started already
C16_StartedInAcceptOrder ==
    /\ \A i, j \in 1..Len(started) : i < j => started[i] < started[j]
    /\ \A i \in 1..Len(started) : \A c \in 1..(started[i] - 1) :
          \E k \in 1..(i - 1) : started[k] = c

\* two jobs started in the order of their connections, and the later one
\* ended while the earlier one was still running
C16_Witness ==
    \E c, d \in 1..Len(conns) :
        /\ c < d
        /\ conns[c].state = "running"
        /\ conns[d].state = "done"
        /\ \E i, j \in 1..Len(started) : i < j /\ started[i] = c /\ started[j] = d

\* ------------------------------------------------------ concurrent uploads

\* connection c was a POST of the /file family that was answered 201
Uploaded(c) ==
    /\ conns[c].state = "done"
    /\ conns[c].parse.kind = "ok"
    /\ conns[c].parse.req.method = POST
    /\ StartsWith(conns[c].parse.req.target, FilePrefix)
    /\ Len(conns[c].received) = 1
    /\ conns[c].received[1].status = 201

\* the file the upload of connection c went to
UploadedFile(c) ==
    Canonicalize(files, workDir, PostFilePath(conns[c].parse.req, serverConf))

\* every connection has been accepted and its job is over
AllOver ==
    /\ Len(conns) = Len(incoming)
    /\ \A c \in 1..Len(conns) : conns[c].state \in {"done", "panicked"}

\* C17: once all uploads to a name are over, each answered 201, the file
\* holds the body of one of them, whole: not a mixture and not nothing
C17_LastWriterWins ==
    AllOver =>
        \A c \in 1..Len(conns) :
            Uploaded(c) =>
                /\ UploadedFile(c).ok
                /\ files[UploadedFile(c).path].data \in
                      { conns[d].parse.req.body.val :
                          d \in { e \in 1..Len(conns) :
                                    /\ Uploaded(e)
                                    /\ conns[e].parse.req.target = conns[c].parse.req.target } }

\* ------------------------------------------------- a length that is none

\* text v is a non-negative integer: digits, with or without a '+' in front
NonNegativeInteger(v) ==
    LET d == IF v # <<>> /\ v[1] = "+" THEN Tail(v) ELSE v
    IN  d # <<>> /\ \A i \in 1..Len(d) : d[i] \in Digits

\* the value of the last content-length line among header lines ls
DeclaredLength(ls) ==
    ValueOf(ls[CHOOSE i \in 1..Len(ls) :
                  /\ KeyOf(ls[i]) = ContentLengthKey
                  /\ \A j \in (i + 1)..Len(ls) : KeyOf(ls[j]) # ContentLengthKey])

\* stream s is a request with well-formed header lines whose content-length
\* is not a non-negative integer
BadLength(s) ==
    /\ ReadsHeaders(s)
    /\ \A i \in 1..Len(HeaderLinesOf(s)) : HasColon(HeaderLinesOf(s)[i])
    /\ \E i \in 1..Len(HeaderLinesOf(s)) : KeyOf(HeaderLinesOf(s)[i]) = ContentLengthKey
    /\ ~NonNegativeInteger(DeclaredLength(HeaderLinesOf(s)))

\* C18: a request whose content-length is not a non-negative integer fails
\* in the parser with InvalidRequest, with no byte after the header block
\* read; the handler builds no response for it, nothing is sent, and no file
\* changes
C18_BadLengthIsInvalid ==
    \A c \in 1..Len(conns) :
        (conns[c].parse.kind # "notrun" /\ BadLength(incoming[c].bytes)) =>
            /\ conns[c].parse.kind = "err"
            /\ conns[c].parse.err = InvalidRequest
            /\ conns[c].parse.next = HeaderBlock(incoming[c].bytes).next
            /\ conns[c].produced = <<>>
            /\ conns[c].received = <<>>
            /\ conns[c].logged = InvalidRequest
            /\ files = InitialFs

\* an upload with a negative content-length and bytes after the blank line
\* was turned down
C18_Witness ==
    \E c \in 1..Len(conns) :
        /\ BadLength(incoming[c].bytes)
        /\ DeclaredLength(HeaderLinesOf(incoming[c].bytes)) = <<"-", "1">>
        /\ LineTokens(incoming[c].bytes)[1] = POST
        /\ conns[c].parse.next <= Len(incoming[c].bytes)
        /\ conns[c].state = "done"
        /\ conns[c].logged = InvalidRequest

\* ------------------------------------------------- where uploads may write

\* the places whose node is not what the file system started with
Changed == { loc \in DOMAIN files : loc \notin DOMAIN InitialFs \/ files[loc] # InitialFs[loc] }

\* C19: whatever requests were handled, every file made or changed is a
\* direct child of the base directory, and nothing was removed
C19_WritesStayInBase ==
    /\ DOMAIN InitialFs \subseteq DOMAIN files
    /\ \A loc \in Changed : Inside(loc) /\ Len(loc) = Len(ServedDir) + 1
====
